---- MODULE Spec2Model ----
(***************************************************************************)
(* Model of deal_finder/tools.py: the retry_on_rate_limit decorator and    *)
(* the two calculators it wraps, calculate_mortgage and calculate_cashflow.*)
(*                                                                         *)
(* Numbers are exact rationals [n, d] (d > 0, lowest terms); round(x, k)   *)
(* is round-half-to-even on the exact value.  Error messages are sequences *)
(* of one-character strings so that str(e).lower() and the substring test  *)
(* are computed, not assumed.                                              *)
(***************************************************************************)
EXTENDS Integers, Sequences, FiniteSets, TLC

\* ------------------------------------------------------------------------
\* Bounds of the model
\* ------------------------------------------------------------------------
\* largest max_retries a generic wrapped operation is decorated with
MaxRetriesBound == 5

\* ------------------------------------------------------------------------
\* Rational arithmetic
\* ------------------------------------------------------------------------
Abs(x) == IF x < 0 THEN -x ELSE x

RECURSIVE GCD(_, _)
GCD(a, b) == IF b = 0 THEN a ELSE GCD(b, a % b)

R(n, d) ==
    LET g == GCD(Abs(n), Abs(d))
        s == IF d < 0 THEN -1 ELSE 1
    IN  [n |-> (s * n) \div g, d |-> (s * d) \div g]

Zero == R(0, 1)
One == R(1, 1)
Hundred == R(100, 1)
Twelve == R(12, 1)

RAdd(a, b) ==
    LET g == GCD(a.d, b.d)
        l == (a.d \div g) * b.d
    IN  R(a.n * (l \div a.d) + b.n * (l \div b.d), l)

RNeg(a) == [n |-> -a.n, d |-> a.d]

RSub(a, b) == RAdd(a, RNeg(b))

RMul(a, b) ==
    LET g1 == GCD(Abs(a.n), b.d)
        g2 == GCD(Abs(b.n), a.d)
    IN  R((a.n \div g1) * (b.n \div g2), (a.d \div g2) * (b.d \div g1))

\* a / b for b # 0 (callers test the divisor first, as Python raises on 0)
RDiv(a, b) == RMul(a, R(b.d, b.n))

RLt(a, b) == RSub(a, b).n < 0
RLe(a, b) == RSub(a, b).n <= 0
RAbs(a) == [n |-> Abs(a.n), d |-> a.d]

RECURSIVE IntPow(_, _)
IntPow(b, e) == IF e = 0 THEN 1 ELSE b * IntPow(b, e - 1)

\* round(x, digits): nearest multiple of 10^-digits, ties to even
Round(x, digits) ==
    LET scale == IntPow(10, digits)
        whole == x.n \div x.d
        r     == x.n % x.d
        h     == (r * scale) \div x.d
        rem   == (r * scale) % x.d
        lo    == whole * scale + h
        up    == IF 2 * rem > x.d THEN 1
                 ELSE IF 2 * rem < x.d THEN 0
                 ELSE IF lo % 2 = 0 THEN 0 ELSE 1
    IN  R(lo + up, scale)

\* ------------------------------------------------------------------------
\* Strings: str(e), str.lower() and the `in` substring test
\* ------------------------------------------------------------------------
UpperChars == <<"A", "B", "C", "D", "E", "F", "G", "H", "I", "J", "K", "L", "M",
                "N", "O", "P", "Q", "R", "S", "T", "U", "V", "W", "X", "Y", "Z">>
LowerChars == <<"a", "b", "c", "d", "e", "f", "g", "h", "i", "j", "k", "l", "m",
                "n", "o", "p", "q", "r", "s", "t", "u", "v", "w", "x", "y", "z">>

LowerChar(c) ==
    IF \E i \in 1..26 : UpperChars[i] = c
    THEN LowerChars[CHOOSE i \in 1..26 : UpperChars[i] = c]
    ELSE c

Lower(s) == [i \in 1..Len(s) |-> LowerChar(s[i])]

Contains(s, p) ==
    \E i \in 0..(Len(s) - Len(p)) :
        \A k \in 1..Len(p) : s[i + k] = p[k]

RESOURCE_EXHAUSTED_PATTERN ==
    <<"r", "e", "s", "o", "u", "r", "c", "e", "_",
      "e", "x", "h", "a", "u", "s", "t", "e", "d">>
RATE_LIMIT_PATTERN == <<"r", "a", "t", "e", " ", "l", "i", "m", "i", "t">>

\* messages an operation's error can carry (the value of str(e))
MessageCores ==
    { RESOURCE_EXHAUSTED_PATTERN,
      <<"R", "E", "S", "O", "U", "R", "C", "E", "_",
        "E", "X", "H", "A", "U", "S", "T", "E", "D">>,
      <<"R", "e", "s", "o", "u", "r", "c", "e", "_",
        "E", "x", "h", "a", "u", "s", "t", "e", "d">>,
      <<"r", "e", "s", "o", "u", "r", "c", "e", " ",
        "e", "x", "h", "a", "u", "s", "t", "e", "d">>,
      <<"R", "E", "S", "O", "U", "R", "C", "E", "_",
        "E", "X", "H", "A", "U", "S", "T", "E">>,
      RATE_LIMIT_PATTERN,
      <<"R", "a", "t", "e", " ", "L", "i", "m", "i", "t">>,
      <<"R", "A", "T", "E", " ", "L", "I", "M", "I", "T">>,
      <<"r", "a", "t", "e", "_", "l", "i", "m", "i", "t">>,
      <<"r", "a", "t", "e", "l", "i", "m", "i", "t">>,
      <<"r", "a", "t", "e", " ", " ", "l", "i", "m", "i", "t">>,
      <<"t", "i", "m", "e", "o", "u", "t">>,
      <<>> }
\* the same texts inside a longer message
Embed(c) == <<"4", "2", "9", " ">> \o c \o <<"!">>
ErrorMessages ==
    MessageCores \cup
    { Embed(c) : c \in { RESOURCE_EXHAUSTED_PATTERN, RATE_LIMIT_PATTERN,
                         <<"t", "i", "m", "e", "o", "u", "t">> } }

\* str(OverflowError(34, 'Numerical result out of range'))
OverflowMessage ==
    <<"(", "3", "4", ",", " ", "'", "N", "u", "m", "e", "r", "i", "c", "a", "l", " ",
      "r", "e", "s", "u", "l", "t", " ", "o", "u", "t", " ", "o", "f", " ",
      "r", "a", "n", "g", "e", "'", ")">>
\* str(ZeroDivisionError('float division by zero'))
ZeroDivisionMessage ==
    <<"f", "l", "o", "a", "t", " ", "d", "i", "v", "i", "s", "i", "o", "n", " ",
      "b", "y", " ", "z", "e", "r", "o">>

\* An error is [msg, cls, id]: cls says whether it is an instance of Exception
\* (caught by `except Exception`) or only of BaseException (KeyboardInterrupt,
\* SystemExit, ...); id is the invocation of the operation that raised it.
ErrorClasses == {"Exception", "BaseException"}
Error(msg, cls, id) == [msg |-> msg, cls |-> cls, id |-> id]
NoError == Error(<<>>, "None", 0)

\* ------------------------------------------------------------------------
\* What one invocation of a wrapped function does: it returns a value or
\* raises an error.  formula records whether the amortization formula ran.
\* ------------------------------------------------------------------------
NoValue == [none |-> TRUE]
Returns(v, f) == [kind |-> "return", value |-> v, msg |-> <<>>, cls |-> "None", formula |-> f]
Raises(m, c, f) == [kind |-> "raise", value |-> NoValue, msg |-> m, cls |-> c, formula |-> f]

\* ------------------------------------------------------------------------
\* calculate_mortgage
\* ------------------------------------------------------------------------
\* Python floats: x ** n raises OverflowError once the result reaches 2^1024
FloatMaxExp == 1024

RECURSIVE Log2Floor(_)
Log2Floor(b) == IF RLt(b, R(2, 1)) THEN 0 ELSE 1 + Log2Floor(RDiv(b, R(2, 1)))

\* exact for the bases the model uses (powers of two)
PowOverflows(b, n) == Log2Floor(b) * n >= FloatMaxExp

\* b ** n by repeated squaring
RECURSIVE RPow(_, _)
RPow(b, n) ==
    IF n = 0 THEN One
    ELSE IF n % 2 = 0 THEN LET h == RPow(b, n \div 2) IN RMul(h, h)
    ELSE RMul(b, RPow(b, n - 1))

ValidateMortgage(price, down_payment_pct, interest_rate, term_years) ==
    IF RLe(price, Zero) THEN "Price must be positive."
    ELSE IF ~(RLe(Zero, down_payment_pct) /\ RLe(down_payment_pct, Hundred))
    THEN "Down payment percentage must be between 0 and 100."
    ELSE IF RLe(interest_rate, Zero) THEN "Interest rate must be positive."
    ELSE IF term_years <= 0 THEN "Loan term must be positive."
    ELSE "ok"

\* mutant: the zero-loan shortcut is never taken
IsZeroLoanNever(loan_amount) == FALSE

IsZeroLoan(loan_amount) == loan_amount = Zero

ZeroLoanRecord(price, down_payment_pct, down_payment) ==
    [price               |-> Round(price, 2),
     down_payment_pct    |-> down_payment_pct,
     down_payment_amount |-> Round(down_payment, 2),
     loan_amount         |-> Zero,
     monthly_payment     |-> Zero,
     total_interest      |-> Zero,
     total_cost          |-> Round(price, 2)]

MonthlyPayment(loan_amount, monthly_rate, growth) ==
    RMul(loan_amount, RDiv(RMul(monthly_rate, growth), RSub(growth, One)))

\* mutant: the loan is not taken off the interest
AmortizedRecordGross(price, down_payment_pct, interest_rate, term_years, down_payment, loan_amount, monthly_payment) ==
    LET num_payments   == term_years * 12
        total_paid     == RMul(monthly_payment, R(num_payments, 1))
    IN  [price               |-> Round(price, 2),
         down_payment_pct    |-> down_payment_pct,
         down_payment_amount |-> Round(down_payment, 2),
         loan_amount         |-> Round(loan_amount, 2),
         interest_rate       |-> interest_rate,
         term_years          |-> term_years,
         monthly_payment     |-> Round(monthly_payment, 2),
         total_interest      |-> Round(total_paid, 2),
         total_cost          |-> Round(RAdd(down_payment, total_paid), 2)]

AmortizedRecord(price, down_payment_pct, interest_rate, term_years, down_payment, loan_amount, monthly_payment) ==
    LET num_payments   == term_years * 12
        total_paid     == RMul(monthly_payment, R(num_payments, 1))
        total_interest == RSub(total_paid, loan_amount)
    IN  [price               |-> Round(price, 2),
         down_payment_pct    |-> down_payment_pct,
         down_payment_amount |-> Round(down_payment, 2),
         loan_amount         |-> Round(loan_amount, 2),
         interest_rate       |-> interest_rate,
         term_years          |-> term_years,
         monthly_payment     |-> Round(monthly_payment, 2),
         total_interest      |-> Round(total_interest, 2),
         total_cost          |-> Round(RAdd(down_payment, total_paid), 2)]

calculate_mortgage(a) ==
    LET check == ValidateMortgage(a.price, a.down_payment_pct,
                                  a.interest_rate, a.term_years)
        down_payment == RMul(a.price, RDiv(a.down_payment_pct, Hundred))
        loan_amount  == RSub(a.price, down_payment)
        monthly_rate == RDiv(RDiv(a.interest_rate, Hundred), Twelve)
        num_payments == a.term_years * 12
        base         == RAdd(One, monthly_rate)
        growth       == RPow(base, num_payments)
    IN  IF check # "ok" THEN Returns([error |-> check], FALSE)
        ELSE IF IsZeroLoan(loan_amount)
        THEN Returns(ZeroLoanRecord(a.price, a.down_payment_pct, down_payment), FALSE)
        ELSE IF PowOverflows(base, num_payments)
        THEN Raises(OverflowMessage, "Exception", TRUE)
        ELSE IF RSub(growth, One) = Zero
        THEN Raises(ZeroDivisionMessage, "Exception", TRUE)
        ELSE Returns(AmortizedRecord(a.price, a.down_payment_pct, a.interest_rate,
                                     a.term_years, down_payment, loan_amount,
                                     MonthlyPayment(loan_amount, monthly_rate, growth)),
                     TRUE)

\* sample inputs of calculate_mortgage
PriceValues == { R(-1, 1), Zero, Hundred, R(1001, 8) }
DownPaymentPctValues == { R(-1, 1), Zero, R(50, 1), R(24999, 250), Hundred, R(101, 1) }
InterestRateValues == { R(-1, 1), Zero, R(1200, 1) }
TermYearsValues == { -1, 0, 1, 86 }
MortgageInputs ==
    [price : PriceValues, down_payment_pct : DownPaymentPctValues,
     interest_rate : InterestRateValues, term_years : TermYearsValues]

\* ------------------------------------------------------------------------
\* calculate_cashflow
\* ------------------------------------------------------------------------
\* mutant: only the rent is validated
ValidateCashflowRentOnly(monthly_rent, mortgage_payment) ==
    IF RLt(monthly_rent, Zero)
    THEN "Rent and mortgage must be non-negative."
    ELSE "ok"

ValidateCashflow(monthly_rent, mortgage_payment) ==
    IF RLt(monthly_rent, Zero) \/ RLt(mortgage_payment, Zero)
    THEN "Rent and mortgage must be non-negative."
    ELSE "ok"

\* mutant: the percentage is taken as a fraction
ReserveOfFraction(monthly_rent, pct) == RMul(monthly_rent, pct)

Reserve(monthly_rent, pct) == RMul(monthly_rent, RDiv(pct, Hundred))

\* mutant: the insurance is left out of the sum
TotalWithoutInsurance(mortgage_payment, monthly_taxes, monthly_insurance, vacancy_reserve, maintenance_reserve) ==
    RAdd(RAdd(RAdd(mortgage_payment, monthly_taxes), vacancy_reserve),
         maintenance_reserve)

TotalMonthlyExpenses(mortgage_payment, monthly_taxes, monthly_insurance, vacancy_reserve, maintenance_reserve) ==
    RAdd(RAdd(RAdd(RAdd(mortgage_payment, monthly_taxes), monthly_insurance),
              vacancy_reserve), maintenance_reserve)

\* mutant: the taxes are not deducted
AnnualNoiWithoutTaxes(monthly_rent, vacancy_reserve, maintenance_reserve, monthly_taxes, monthly_insurance) ==
    RMul(RSub(RSub(RSub(monthly_rent, vacancy_reserve), maintenance_reserve),
              monthly_insurance), Twelve)

AnnualNoi(monthly_rent, vacancy_reserve, maintenance_reserve, monthly_taxes, monthly_insurance) ==
    RMul(RSub(RSub(RSub(RSub(monthly_rent, vacancy_reserve), maintenance_reserve),
                   monthly_taxes), monthly_insurance), Twelve)

\* the test `x > 0` that guards each division
\* mutant: the guard lets 0 through
DivisorUsedNonNegative(x) == RLe(Zero, x)

DivisorUsed(x) == RLt(Zero, x)

CapRate(annual_noi, property_price) ==
    IF DivisorUsed(property_price)
    THEN RMul(RDiv(annual_noi, property_price), Hundred) ELSE Zero

CashOnCash(annual_cash_flow, total_cash_invested) ==
    IF DivisorUsed(total_cash_invested)
    THEN RMul(RDiv(annual_cash_flow, total_cash_invested), Hundred) ELSE Zero

RentToPrice(monthly_rent, property_price) ==
    IF DivisorUsed(property_price) THEN RDiv(monthly_rent, property_price) ELSE Zero

CashflowRecord(a) ==
    LET vacancy_reserve     == Reserve(a.monthly_rent, a.vacancy_rate_pct)
        maintenance_reserve == Reserve(a.monthly_rent, a.maintenance_pct)
        total_monthly_expenses ==
            TotalMonthlyExpenses(a.mortgage_payment, a.monthly_taxes,
                                 a.monthly_insurance, vacancy_reserve,
                                 maintenance_reserve)
        monthly_cash_flow == RSub(a.monthly_rent, total_monthly_expenses)
        annual_cash_flow  == RMul(monthly_cash_flow, Twelve)
        annual_noi == AnnualNoi(a.monthly_rent, vacancy_reserve, maintenance_reserve,
                                a.monthly_taxes, a.monthly_insurance)
    IN  [monthly_rent |-> Round(a.monthly_rent, 2),
         expenses |->
            [mortgage            |-> Round(a.mortgage_payment, 2),
             taxes               |-> Round(a.monthly_taxes, 2),
             insurance           |-> Round(a.monthly_insurance, 2),
             vacancy_reserve     |-> Round(vacancy_reserve, 2),
             maintenance_reserve |-> Round(maintenance_reserve, 2),
             total_monthly       |-> Round(total_monthly_expenses, 2)],
         monthly_cash_flow |-> Round(monthly_cash_flow, 2),
         annual_cash_flow  |-> Round(annual_cash_flow, 2),
         annual_noi        |-> Round(annual_noi, 2),
         cap_rate_pct      |-> Round(CapRate(annual_noi, a.property_price), 2),
         cash_on_cash_return_pct |->
            Round(CashOnCash(annual_cash_flow, a.total_cash_invested), 2),
         rent_to_price_ratio |-> Round(RentToPrice(a.monthly_rent, a.property_price), 4)]

calculate_cashflow(a) ==
    LET check == ValidateCashflow(a.monthly_rent, a.mortgage_payment)
    IN  IF check # "ok" THEN Returns([error |-> check], FALSE)
        ELSE IF \/ DivisorUsed(a.property_price) /\ a.property_price = Zero
                \/ DivisorUsed(a.total_cash_invested) /\ a.total_cash_invested = Zero
        THEN Raises(ZeroDivisionMessage, "Exception", FALSE)
        ELSE Returns(CashflowRecord(a), FALSE)

\* sample inputs of calculate_cashflow
RentValues == { R(-1, 1), Zero, R(2021, 200), R(1450, 1) }
MortgagePaymentValues == { R(-1, 1), Zero, R(1, 250), R(2312, 1) }
TaxesValues == { R(-5, 1), R(1, 250), R(280, 1) }
InsuranceValues == { Zero, R(1, 250), R(145, 1) }
VacancyPctValues == { R(-5, 1), R(5, 1), R(150, 1) }
MaintenancePctValues == { Zero, R(5, 1) }
PropertyPriceValues == { R(-3, 1), Zero, R(365000, 1) }
CashInvestedValues == { R(-2, 1), Zero, R(17775, 1) }
CashflowInputs ==
    [monthly_rent : RentValues, mortgage_payment : MortgagePaymentValues,
     monthly_taxes : TaxesValues, monthly_insurance : InsuranceValues,
     vacancy_rate_pct : VacancyPctValues, maintenance_pct : MaintenancePctValues,
     property_price : PropertyPriceValues, total_cash_invested : CashInvestedValues]

\* ------------------------------------------------------------------------
\* retry_on_rate_limit: decorator parameters and the wrapper's handler
\* ------------------------------------------------------------------------
\* the decorator arguments of both calculators
CalculatorMaxRetries == 5
CalculatorBaseDelay == 2

BaseDelayValues == { Zero, R(1, 2), R(2, 1) }
OpValues == { "value_a", "value_b" }
NoArgs == [none |-> TRUE]

\* `except Exception` catches instances of Exception only
Caught(cls) == cls = "Exception"

\* mutant: the message is not lower-cased before the test
IsRateLimitCaseSensitive(msg) ==
    \/ Contains(msg, RESOURCE_EXHAUSTED_PATTERN)
    \/ Contains(msg, RATE_LIMIT_PATTERN)

IsRateLimit(msg) ==
    LET error_str == Lower(msg)
    IN  \/ Contains(error_str, RESOURCE_EXHAUSTED_PATTERN)
        \/ Contains(error_str, RATE_LIMIT_PATTERN)

\* mutant: every error is retried
RetryableAlways(e) == TRUE

Retryable(e) == Caught(e.cls) /\ IsRateLimit(e.msg)

\* mutant: the last attempt is followed by a wait as well
MayRetryAfterLast(a, m) == a <= m

MayRetry(a, m) == a < m

\* mutant: the delay grows linearly
BackoffLinear(base, a) == RMul(base, R(a + 1, 1))

Backoff(base, a) == RMul(base, R(IntPow(2, a), 1))

\* mutant: the first failure is kept
RememberFirst(last, e) == IF last = NoError THEN e ELSE last

Remember(last, e) == e

\* observable effects, in order: invocations of func, logger calls, sleeps
Event(type, n, delay) == [type |-> type, n |-> n, delay |-> delay]

NoOutcome == [kind |-> "none", value |-> NoValue, error |-> NoError]
Returned(v) == [kind |-> "return", value |-> v, error |-> NoError]
\* mutant: a new error with the same text is raised in place of func's
RaisedCopy(e) == [kind |-> "raise", value |-> NoValue, error |-> [e EXCEPT !.id = 0]]

Raised(e) == [kind |-> "raise", value |-> NoValue, error |-> e]

VARIABLES pc, fn, args, max_retries, base_delay, attempt, last_exception, events, result, outcome

vars == <<pc, fn, args, max_retries, base_delay, attempt, last_exception,
          events, result, outcome>>

NoResult == [kind |-> "none", value |-> NoValue, msg |-> <<>>, cls |-> "None",
             formula |-> FALSE]

Init ==
    /\ pc = "idle"
    /\ fn = "none"
    /\ args = NoArgs
    /\ max_retries = 0
    /\ base_delay = Zero
    /\ attempt = 0
    /\ last_exception = NoError
    /\ events = <<>>
    /\ result = NoResult
    /\ outcome = NoOutcome

\* wrapper(*args, **kwargs) is entered: last_exception = None, attempt = 0
Enter(f, a, m, b) ==
    /\ pc = "idle"
    /\ pc' = "try"
    /\ fn' = f
    /\ args' = a
    /\ max_retries' = m
    /\ base_delay' = b
    /\ attempt' = 0
    /\ last_exception' = NoError
    /\ UNCHANGED <<events, result, outcome>>

InvokeOp ==
    \E m \in 0..MaxRetriesBound, b \in BaseDelayValues : Enter("op", NoArgs, m, b)

InvokeMortgage ==
    \E a \in MortgageInputs :
        Enter("calculate_mortgage", a, CalculatorMaxRetries, R(CalculatorBaseDelay, 1))

InvokeCashflow ==
    \E a \in CashflowInputs :
        Enter("calculate_cashflow", a, CalculatorMaxRetries, R(CalculatorBaseDelay, 1))

\* one pass of the loop body: func is invoked and its result res is handled
Attempt(res) ==
    LET call == Event("call", attempt, Zero)
        e    == Error(res.msg, res.cls, attempt + 1)
        delay == Backoff(base_delay, attempt)
    IN  /\ result' = res
        /\ UNCHANGED <<fn, args, max_retries, base_delay, attempt>>
        /\ IF res.kind = "return"
           THEN /\ outcome' = Returned(res.value)
                /\ pc' = "done"
                /\ events' = Append(events, call)
                /\ UNCHANGED last_exception
           ELSE IF Retryable(e)
           THEN /\ last_exception' = Remember(last_exception, e)
                /\ IF MayRetry(attempt, max_retries)
                   THEN /\ events' = events \o <<call, Event("warning", attempt + 1, delay)>>
                        /\ pc' = "sleep"
                        /\ UNCHANGED outcome
                   ELSE /\ events' = events \o <<call, Event("error", max_retries, Zero)>>
                        /\ pc' = "done"
                        /\ outcome' = Raised(last_exception')
           ELSE /\ outcome' = Raised(e)
                /\ pc' = "done"
                /\ events' = Append(events, call)
                /\ UNCHANGED last_exception

OpReturns ==
    /\ pc = "try" /\ fn = "op"
    /\ \E v \in OpValues : Attempt(Returns(v, FALSE))

OpRaises ==
    /\ pc = "try" /\ fn = "op"
    /\ \E m \in ErrorMessages, c \in ErrorClasses : Attempt(Raises(m, c, FALSE))

MortgageAttempt ==
    /\ pc = "try" /\ fn = "calculate_mortgage"
    /\ Attempt(calculate_mortgage(args))

CashflowAttempt ==
    /\ pc = "try" /\ fn = "calculate_cashflow"
    /\ Attempt(calculate_cashflow(args))

\* time.sleep(delay) returns and the loop goes to the next attempt
Sleep ==
    /\ pc = "sleep"
    /\ events' = Append(events, Event("sleep", attempt, Backoff(base_delay, attempt)))
    /\ attempt' = attempt + 1
    /\ pc' = "try"
    /\ UNCHANGED <<fn, args, max_retries, base_delay, last_exception, result, outcome>>

Next ==
    \/ InvokeOp
    \/ InvokeMortgage
    \/ InvokeCashflow
    \/ OpReturns
    \/ OpRaises
    \/ MortgageAttempt
    \/ CashflowAttempt
    \/ Sleep

Spec == Init /\ [][Next]_vars

\* The wrapper around an operation that may do anything.  A call that has
\* been entered runs on: func returns or raises, and time.sleep returns after
\* its delay.
NextLive ==
    \/ InvokeOp
    \/ OpReturns
    \/ OpRaises
    \/ Sleep

Step == OpReturns \/ OpRaises \/ Sleep

SpecLive == Init /\ [][NextLive]_vars /\ WF_vars(Step)

\* ------------------------------------------------------------------------
\* Several invocations of wrapped functions in progress at once.  In this
\* specification every variable holds one value per invocation; attempt and
\* last_exception, the locals of wrapper, hold one value per call frame.
\* ------------------------------------------------------------------------
NumInvocations == 2
ConcurrentMaxRetries == 2

Invocations == 1..NumInvocations
ConcurrentRetries == { 1, ConcurrentMaxRetries }
ConcurrentBaseDelays == { R(1, 2), R(2, 1) }
ConcurrentMessages == { RATE_LIMIT_PATTERN, <<"t", "i", "m", "e", "o", "u", "t">> }
ConcurrentMortgageInputs ==
    { a \in MortgageInputs :
        /\ a.price = Hundred /\ a.interest_rate = R(1200, 1) /\ a.term_years = 1
        /\ a.down_payment_pct \in { R(50, 1), Hundred } }

\* mutant: attempt and last_exception live in the decorator's closure, one
\* cell for all the invocations
FrameOfDecorator(i) == 1

\* every call of wrapper has a frame of its own for its locals
Frame(i) == i

InitConcurrent ==
    /\ pc = [i \in Invocations |-> "idle"]
    /\ fn = [i \in Invocations |-> "none"]
    /\ args = [i \in Invocations |-> NoArgs]
    /\ max_retries = [i \in Invocations |-> 0]
    /\ base_delay = [i \in Invocations |-> Zero]
    /\ attempt = [c \in Invocations |-> 0]
    /\ last_exception = [c \in Invocations |-> NoError]
    /\ events = [i \in Invocations |-> <<>>]
    /\ result = [i \in Invocations |-> NoResult]
    /\ outcome = [i \in Invocations |-> NoOutcome]

\* invocation i enters wrapper: last_exception = None, attempt = 0
EnterConcurrent(i, f, a, m, b) ==
    /\ pc[i] = "idle"
    /\ pc' = [pc EXCEPT ![i] = "try"]
    /\ fn' = [fn EXCEPT ![i] = f]
    /\ args' = [args EXCEPT ![i] = a]
    /\ max_retries' = [max_retries EXCEPT ![i] = m]
    /\ base_delay' = [base_delay EXCEPT ![i] = b]
    /\ attempt' = [attempt EXCEPT ![Frame(i)] = 0]
    /\ last_exception' = [last_exception EXCEPT ![Frame(i)] = NoError]
    /\ UNCHANGED <<events, result, outcome>>

InvokeOpConcurrent ==
    \E i \in Invocations, m \in ConcurrentRetries, b \in ConcurrentBaseDelays :
        EnterConcurrent(i, "op", NoArgs, m, b)

InvokeMortgageConcurrent ==
    \E i \in Invocations, a \in ConcurrentMortgageInputs :
        EnterConcurrent(i, "calculate_mortgage", a, CalculatorMaxRetries,
                        R(CalculatorBaseDelay, 1))

\* one pass of the loop body of invocation i
AttemptConcurrent(i, res) ==
    LET c     == Frame(i)
        call  == Event("call", attempt[c], Zero)
        e     == Error(res.msg, res.cls, <<i, attempt[c] + 1>>)
        delay == Backoff(base_delay[i], attempt[c])
        kept  == Remember(last_exception[c], e)
    IN  /\ pc[i] = "try"
        /\ result' = [result EXCEPT ![i] = res]
        /\ UNCHANGED <<fn, args, max_retries, base_delay, attempt>>
        /\ IF res.kind = "return"
           THEN /\ outcome' = [outcome EXCEPT ![i] = Returned(res.value)]
                /\ pc' = [pc EXCEPT ![i] = "done"]
                /\ events' = [events EXCEPT ![i] = Append(@, call)]
                /\ UNCHANGED last_exception
           ELSE IF Retryable(e)
           THEN /\ last_exception' = [last_exception EXCEPT ![c] = kept]
                /\ IF MayRetry(attempt[c], max_retries[i])
                   THEN /\ events' = [events EXCEPT ![i] =
                                @ \o <<call, Event("warning", attempt[c] + 1, delay)>>]
                        /\ pc' = [pc EXCEPT ![i] = "sleep"]
                        /\ UNCHANGED outcome
                   ELSE /\ events' = [events EXCEPT ![i] =
                                @ \o <<call, Event("error", max_retries[i], Zero)>>]
                        /\ pc' = [pc EXCEPT ![i] = "done"]
                        /\ outcome' = [outcome EXCEPT ![i] = Raised(kept)]
           ELSE /\ outcome' = [outcome EXCEPT ![i] = Raised(e)]
                /\ pc' = [pc EXCEPT ![i] = "done"]
                /\ events' = [events EXCEPT ![i] = Append(@, call)]
                /\ UNCHANGED last_exception

OpReturnsConcurrent ==
    \E i \in Invocations :
        /\ fn[i] = "op"
        /\ AttemptConcurrent(i, Returns("value_a", FALSE))

OpRaisesConcurrent ==
    \E i \in Invocations, m \in ConcurrentMessages :
        /\ fn[i] = "op"
        /\ AttemptConcurrent(i, Raises(m, "Exception", FALSE))

MortgageAttemptConcurrent ==
    \E i \in Invocations :
        /\ fn[i] = "calculate_mortgage"
        /\ AttemptConcurrent(i, calculate_mortgage(args[i]))

\* time.sleep(delay) of invocation i returns; the others are not held up
SleepConcurrent ==
    \E i \in Invocations :
        LET c == Frame(i)
        IN  /\ pc[i] = "sleep"
            /\ events' = [events EXCEPT ![i] =
                    Append(@, Event("sleep", attempt[c], Backoff(base_delay[i], attempt[c])))]
            /\ attempt' = [attempt EXCEPT ![c] = @ + 1]
            /\ pc' = [pc EXCEPT ![i] = "try"]
            /\ UNCHANGED <<fn, args, max_retries, base_delay, last_exception, result, outcome>>

NextConcurrent ==
    \/ InvokeOpConcurrent
    \/ InvokeMortgageConcurrent
    \/ OpReturnsConcurrent
    \/ OpRaisesConcurrent
    \/ MortgageAttemptConcurrent
    \/ SleepConcurrent

SpecConcurrent == InitConcurrent /\ [][NextConcurrent]_vars

\* ------------------------------------------------------------------------
\* Observations used by the properties
\* ------------------------------------------------------------------------
IsCall(ev) == ev.type = "call"
IsSleep(ev) == ev.type = "sleep"
IsCallOrSleep(ev) == ev.type \in {"call", "sleep"}
IsLog(ev) == ev.type \in {"warning", "error"}

Calls == Len(SelectSeq(events, IsCall))
Sleeps == SelectSeq(events, IsSleep)
CallsAndSleeps == SelectSeq(events, IsCallOrSleep)
LastEvent == events[Len(events)]

\* base, 2*base, 4*base, ... by repeated doubling
RECURSIVE Doubled(_, _)
Doubled(b, i) == IF i = 0 THEN b ELSE RAdd(Doubled(b, i - 1), Doubled(b, i - 1))

\* call 0, sleep base, call 1, sleep 2*base, ..., call k
AlternatesUpTo(k) ==
    /\ Len(CallsAndSleeps) = 2 * k + 1
    /\ \A i \in 1..(2 * k + 1) :
          IF i % 2 = 1
          THEN /\ CallsAndSleeps[i].type = "call"
               /\ CallsAndSleeps[i].n = (i - 1) \div 2
          ELSE /\ CallsAndSleeps[i].type = "sleep"
               /\ CallsAndSleeps[i].delay = Doubled(base_delay, (i \div 2) - 1)

\* the rate-limit signature, stated on the message itself: at some position
\* every character equals the pattern's character or its capital
CapitalOf(c) ==
    IF \E i \in 1..26 : LowerChars[i] = c
    THEN UpperChars[CHOOSE i \in 1..26 : LowerChars[i] = c]
    ELSE c

MatchesAt(s, p, i) ==
    \A k \in 1..Len(p) : s[i + k] = p[k] \/ s[i + k] = CapitalOf(p[k])

HasSignature(s) ==
    \/ \E i \in 0..(Len(s) - 18) : MatchesAt(s, RESOURCE_EXHAUSTED_PATTERN, i)
    \/ \E i \in 0..(Len(s) - 10) : MatchesAt(s, RATE_LIMIT_PATTERN, i)

\* the latest invocation of func raised, and the wrapper went on to retry or
\* to the exhaustion branch
TreatedAsRetryable ==
    \/ pc \in {"sleep", "try"}
    \/ pc = "done" /\ LastEvent.type = "error"

\* ------------------------------------------------------------------------
\* Properties
\* ------------------------------------------------------------------------

\* C1: when func fails retryably on its first k calls (k <= max_retries) and
\* returns on call k+1, the wrapper returns that value after exactly k+1
\* invocations and k sleeps of base_delay*2^0 .. base_delay*2^(k-1), each sleep
\* lying between a failed attempt and the next one.
C1_ReturnsAfterBackoff ==
    (pc = "done" /\ result.kind = "return") =>
        /\ outcome = Returned(result.value)
        /\ attempt <= max_retries
        /\ Calls = attempt + 1
        /\ Len(Sleeps) = attempt
        /\ AlternatesUpTo(attempt)

C1_Witness ==
    /\ pc = "done" /\ fn = "op" /\ outcome.kind = "return"
    /\ attempt = 3 /\ max_retries = 4
    /\ [i \in 1..3 |-> Sleeps[i].delay] = <<R(1, 2), R(1, 1), R(2, 1)>>

\* C2: an attempt that raises an error not classified as retryable ends the
\* call at once with that very error: no further invocation, no sleep and no
\* log after it, also when earlier attempts failed retryably.
C2_NonRetryablePropagates ==
    (result.kind = "raise" /\ ~(result.cls = "Exception" /\ HasSignature(result.msg))) =>
        /\ pc = "done"
        /\ outcome = Raised(Error(result.msg, result.cls, attempt + 1))
        /\ LastEvent = Event("call", attempt, Zero)
        /\ Calls = attempt + 1
        /\ Len(Sleeps) = attempt
        /\ \A i \in 1..Len(events) : events[i].type # "error"

C2_Witness ==
    /\ pc = "done" /\ fn = "op" /\ attempt = 2
    /\ last_exception.id = 2
    /\ outcome.kind = "raise" /\ outcome.error.id = 3
    /\ outcome.error.msg = <<"t", "i", "m", "e", "o", "u", "t">>

\* C3: when every attempt fails retryably the wrapper makes max_retries+1
\* invocations and max_retries sleeps (2, 4, 8, 16, 32 with the defaults),
\* does not sleep after the last failure, and raises the error of the final
\* attempt; it does not return a value.
C3_ExhaustionRaisesLast ==
    (pc = "done" /\ result.kind = "raise"
        /\ result.cls = "Exception" /\ HasSignature(result.msg)) =>
        /\ outcome = Raised(Error(result.msg, result.cls, max_retries + 1))
        /\ Calls = max_retries + 1
        /\ Len(Sleeps) = max_retries
        /\ AlternatesUpTo(max_retries)
        /\ LastEvent.type = "error"
        /\ (max_retries = 5 /\ base_delay = R(2, 1)) =>
              [i \in 1..5 |-> Sleeps[i].delay]
                  = <<R(2, 1), R(4, 1), R(8, 1), R(16, 1), R(32, 1)>>

C3_Witness ==
    /\ pc = "done" /\ fn = "op" /\ max_retries = 5 /\ base_delay = R(2, 1)
    /\ outcome.kind = "raise" /\ outcome.error.id = 6
    /\ Len(Sleeps) = 5

\* C4 (as stated): an error raised by func is treated as retryable exactly
\* when its message contains "resource_exhausted" or "rate limit" in any
\* letter case.
C4_RetryableIffSignature ==
    result.kind = "raise" => (TreatedAsRetryable <=> HasSignature(result.msg))

\* C4 (amended): the same for errors that are instances of Exception; an
\* error outside Exception is never retried, whatever its message.
C4_RetryableIffCaughtSignature ==
    result.kind = "raise" =>
        (TreatedAsRetryable <=> (result.cls = "Exception" /\ HasSignature(result.msg)))

C4_Witness ==
    /\ pc = "sleep" /\ result.kind = "raise" /\ result.cls = "Exception"
    /\ result.msg = <<"R", "a", "t", "e", " ", "L", "i", "m", "i", "t">>

\* ------------------------------------------------------------------------
\* Properties of calculate_mortgage
\* ------------------------------------------------------------------------
MortgageDone == fn = "calculate_mortgage" /\ pc = "done"
MortgageSuccess ==
    MortgageDone /\ outcome.kind = "return" /\ "error" \notin DOMAIN outcome.value

\* the message of the first failing check in the order price, down payment
\* percentage, interest rate, term; "none" when all four pass
FirstFailingCheck(a) ==
    IF a.price.n <= 0 THEN "Price must be positive."
    ELSE IF a.down_payment_pct.n < 0 \/ a.down_payment_pct.n > 100 * a.down_payment_pct.d
    THEN "Down payment percentage must be between 0 and 100."
    ELSE IF a.interest_rate.n <= 0 THEN "Interest rate must be positive."
    ELSE IF a.term_years <= 0 THEN "Loan term must be positive."
    ELSE "none"

\* C5: calculate_mortgage returns the error record of the first failing check
\* in the order price, down_payment_pct, interest_rate, term_years, and a
\* success record exactly when all four checks pass.
C5_FirstFailingCheckDecides ==
    MortgageDone =>
        /\ outcome.kind = "return"
        /\ IF FirstFailingCheck(args) # "none"
           THEN outcome.value = [error |-> FirstFailingCheck(args)]
           ELSE "error" \notin DOMAIN outcome.value

MortgageResultFields ==
    {"price", "down_payment_pct", "down_payment_amount", "loan_amount",
     "interest_rate", "term_years", "monthly_payment", "total_interest",
     "total_cost"}

\* C6: every success record of calculate_mortgage, the 100%-down one
\* included, has all nine MortgageResult fields.
C6_AllNineFields ==
    MortgageSuccess => DOMAIN outcome.value = MortgageResultFields

\* what holds of a record whose loan is nothing
ZeroLoanOutputs ==
    /\ outcome.value.monthly_payment = Zero
    /\ outcome.value.total_interest = Zero
    /\ outcome.value.total_cost = outcome.value.price
    /\ ~result.formula

\* C7 (as stated): in every success record loan_amount >= 0, and whenever the
\* returned loan_amount is 0 the monthly payment and total interest are 0,
\* total_cost is the returned price and the amortization formula was not
\* evaluated.
C7_ZeroReturnedLoan ==
    MortgageSuccess =>
        /\ RLe(Zero, outcome.value.loan_amount)
        /\ outcome.value.loan_amount = Zero => ZeroLoanOutputs

\* C7 (amended): the same whenever the loan before rounding,
\* price - price * down_payment_pct / 100, is exactly 0 (as it is for
\* down_payment_pct = 100); a positive loan below half a cent is returned as
\* 0.00 but goes through the formula.
C7_ZeroUnroundedLoan ==
    MortgageSuccess =>
        /\ RLe(Zero, outcome.value.loan_amount)
        /\ RMul(args.price, RSub(Hundred, args.down_payment_pct)) = Zero
              => ZeroLoanOutputs

C7_Witness ==
    /\ MortgageSuccess
    /\ args.down_payment_pct = Hundred /\ args.price = R(1001, 8)
    /\ outcome.value.total_cost = R(12512, 100)

\* ------------------------------------------------------------------------
\* Properties of calculate_cashflow
\* ------------------------------------------------------------------------
CashflowDone == fn = "calculate_cashflow" /\ pc = "done"
CashflowSuccess ==
    CashflowDone /\ outcome.kind = "return" /\ "error" \notin DOMAIN outcome.value

\* C8: calculate_cashflow returns the error record exactly when monthly_rent
\* or mortgage_payment is negative, and a success record for every other
\* input, whatever the other six values are.
C8_OnlyRentAndMortgageValidated ==
    CashflowDone =>
        /\ outcome.kind = "return"
        /\ IF args.monthly_rent.n < 0 \/ args.mortgage_payment.n < 0
           THEN outcome.value = [error |-> "Rent and mortgage must be non-negative."]
           ELSE /\ "error" \notin DOMAIN outcome.value
                /\ "monthly_cash_flow" \in DOMAIN outcome.value

C8_Witness ==
    /\ CashflowSuccess
    /\ args.monthly_taxes.n < 0 /\ args.vacancy_rate_pct = R(150, 1)
    /\ args.property_price.n < 0 /\ args.total_cash_invested.n < 0

\* the quantities of the cash-flow analysis, from the inputs
Percent(x, pct) == RDiv(RMul(x, pct), Hundred)
ExpensesOf(a) ==
    RAdd(Percent(a.monthly_rent, RAdd(a.vacancy_rate_pct, a.maintenance_pct)),
         RAdd(a.mortgage_payment, RAdd(a.monthly_taxes, a.monthly_insurance)))
CashFlowOf(a) == RSub(a.monthly_rent, ExpensesOf(a))
NoiOf(a) == RMul(Twelve, RAdd(CashFlowOf(a), a.mortgage_payment))

\* q is num/den rounded to `digits` decimals: |q*den - num| <= den / (2*10^digits)
IsRoundedQuotient(q, num, den, digits) ==
    RLe(RAbs(RSub(RMul(q, den), num)), RDiv(den, R(2 * IntPow(10, digits), 1)))

\* C9: property_price = 0 gives cap_rate_pct = 0 and rent_to_price_ratio = 0,
\* total_cash_invested = 0 gives cash_on_cash_return_pct = 0, no accepted
\* input divides by zero, and a positive divisor gives the computed quotient.
C9_RatiosAndZeroDivisors ==
    /\ CashflowDone => outcome.kind = "return"
    /\ CashflowSuccess =>
        /\ args.property_price = Zero =>
              /\ outcome.value.cap_rate_pct = Zero
              /\ outcome.value.rent_to_price_ratio = Zero
        /\ args.total_cash_invested = Zero =>
              outcome.value.cash_on_cash_return_pct = Zero
        /\ args.property_price.n > 0 =>
              /\ IsRoundedQuotient(outcome.value.cap_rate_pct,
                                   RMul(NoiOf(args), Hundred), args.property_price, 2)
              /\ IsRoundedQuotient(outcome.value.rent_to_price_ratio,
                                   args.monthly_rent, args.property_price, 4)
        /\ args.total_cash_invested.n > 0 =>
              IsRoundedQuotient(outcome.value.cash_on_cash_return_pct,
                                RMul(RMul(Twelve, CashFlowOf(args)), Hundred),
                                args.total_cash_invested, 2)

C9_Witness ==
    /\ CashflowSuccess
    /\ args.property_price = Zero /\ args.monthly_rent = R(1450, 1)
    /\ args.total_cash_invested = R(17775, 1)
    /\ outcome.value.cash_on_cash_return_pct # Zero
    /\ outcome.value.cap_rate_pct = Zero

SumOfReturnedExpenses ==
    LET x == outcome.value.expenses
    IN  RAdd(x.mortgage, RAdd(x.taxes, RAdd(x.insurance,
             RAdd(x.vacancy_reserve, x.maintenance_reserve))))

\* C10 (as stated): in every success record total_monthly is the sum of the
\* five returned expense fields, monthly_cash_flow is the returned rent minus
\* total_monthly, and annual_cash_flow is 12 times monthly_cash_flow.
C10_ReturnedFieldsAddUp ==
    CashflowSuccess =>
        /\ outcome.value.expenses.total_monthly = SumOfReturnedExpenses
        /\ outcome.value.monthly_cash_flow
              = RSub(outcome.value.monthly_rent, outcome.value.expenses.total_monthly)
        /\ outcome.value.annual_cash_flow
              = RMul(Twelve, outcome.value.monthly_cash_flow)

\* C10 (amended): total_monthly, monthly_cash_flow and annual_cash_flow are the
\* 2-decimal roundings of the unrounded sum of the five expenses, of rent
\* minus that sum and of 12 times that difference; the returned fields agree
\* with each other only up to that rounding (3, 1 and 6.5 cents).
C10_RoundedFromUnrounded ==
    CashflowSuccess =>
        /\ outcome.value.expenses.total_monthly = Round(ExpensesOf(args), 2)
        /\ outcome.value.monthly_cash_flow = Round(CashFlowOf(args), 2)
        /\ outcome.value.annual_cash_flow = Round(RMul(Twelve, CashFlowOf(args)), 2)
        /\ RLe(RAbs(RSub(outcome.value.expenses.total_monthly, SumOfReturnedExpenses)),
               R(3, 100))
        /\ RLe(RAbs(RSub(outcome.value.monthly_cash_flow,
                         RSub(outcome.value.monthly_rent,
                              outcome.value.expenses.total_monthly))),
               R(1, 100))
        /\ RLe(RAbs(RSub(outcome.value.annual_cash_flow,
                         RMul(Twelve, outcome.value.monthly_cash_flow))),
               R(65, 1000))

C10_Witness ==
    /\ CashflowSuccess
    /\ args.monthly_rent = Zero /\ args.mortgage_payment = Zero
    /\ args.monthly_taxes = R(1, 250) /\ args.monthly_insurance = R(1, 250)
    /\ outcome.value.expenses.total_monthly = R(1, 100)
    /\ SumOfReturnedExpenses = Zero

\* the accepted inputs that differ from a at most in mortgage_payment and
\* total_cash_invested
SameButDebtAndCash(a) ==
    { b \in CashflowInputs :
        /\ b.mortgage_payment.n >= 0
        /\ [b EXCEPT !.mortgage_payment = a.mortgage_payment,
                     !.total_cash_invested = a.total_cash_invested] = a }

\* C11: annual_noi leaves the debt service out: calls that differ only in
\* mortgage_payment or total_cash_invested return the same annual_noi,
\* cap_rate_pct and rent_to_price_ratio, and annual_noi is
\* (rent - vacancy_reserve - maintenance_reserve - taxes - insurance) * 12.
C11_NoiExcludesDebtService ==
    CashflowSuccess =>
        /\ outcome.value.annual_noi = Round(NoiOf(args), 2)
        /\ \A b \in SameButDebtAndCash(args) :
              LET other == calculate_cashflow(b).value
              IN  /\ other.annual_noi = outcome.value.annual_noi
                  /\ other.cap_rate_pct = outcome.value.cap_rate_pct
                  /\ other.rent_to_price_ratio = outcome.value.rent_to_price_ratio

C11_Witness ==
    /\ CashflowSuccess
    /\ args.mortgage_payment = R(2312, 1) /\ args.monthly_rent = R(1450, 1)
    /\ args.monthly_taxes = R(280, 1) /\ args.property_price = R(365000, 1)
    /\ outcome.value.annual_noi # outcome.value.annual_cash_flow
    /\ \E b \in SameButDebtAndCash(args) : b.mortgage_payment = Zero

CashflowResultFields ==
    {"monthly_rent", "expenses", "monthly_cash_flow", "annual_cash_flow",
     "annual_noi", "cap_rate_pct", "cash_on_cash_return_pct",
     "rent_to_price_ratio"}

ExpensesFields ==
    {"mortgage", "taxes", "insurance", "vacancy_reserve",
     "maintenance_reserve", "total_monthly"}

\* the input fails one of the calculator's validation checks
InvalidInput ==
    IF fn = "calculate_mortgage"
    THEN FirstFailingCheck(args) # "none"
    ELSE args.monthly_rent.n < 0 \/ args.mortgage_payment.n < 0

IsErrorRecord(r) == DOMAIN r = {"error"}

IsCompleteSuccessRecord(r) ==
    IF fn = "calculate_mortgage"
    THEN DOMAIN r = MortgageResultFields
    ELSE DOMAIN r = CashflowResultFields /\ DOMAIN r.expenses = ExpensesFields

\* an invalid input is answered on the first call, without sleep or log, by a
\* record that has the error field alone
ReturnedAsErrorValue ==
    /\ outcome.kind = "return"
    /\ IsErrorRecord(outcome.value)
    /\ events = <<Event("call", 0, Zero)>>

\* C12: a validation failure of a calculator is returned as a value after one
\* invocation and no sleep, in a record whose only field is error, and every
\* record a calculator returns is a complete success record or a complete
\* error record.
C12_ValidationReturnedAsValue ==
    (pc = "done" /\ fn \in {"calculate_mortgage", "calculate_cashflow"}) =>
        /\ InvalidInput => ReturnedAsErrorValue
        /\ outcome.kind = "return" =>
              \/ IsErrorRecord(outcome.value)
              \/ IsCompleteSuccessRecord(outcome.value)

\* the part of C12 that does not rest on the field list of the success record
C12_NeverAMixture ==
    (pc = "done" /\ fn \in {"calculate_mortgage", "calculate_cashflow"}) =>
        /\ InvalidInput => ReturnedAsErrorValue
        /\ outcome.kind = "return" =>
              \/ IsErrorRecord(outcome.value)
              \/ "error" \notin DOMAIN outcome.value
        /\ (outcome.kind = "return" /\ ~result.formula /\ "error" \notin DOMAIN outcome.value
              /\ fn = "calculate_mortgage")
              => DOMAIN outcome.value = MortgageResultFields \ {"interest_rate", "term_years"}
        /\ (outcome.kind = "return" /\ ~IsCompleteSuccessRecord(outcome.value)
              /\ ~IsErrorRecord(outcome.value))
              => (fn = "calculate_mortgage" /\ args.down_payment_pct = Hundred)

\* what invocation i has done so far, from its own events
CallsOf(i) == Len(SelectSeq(events[i], IsCall))
CallsAndSleepsOf(i) == SelectSeq(events[i], IsCallOrSleep)

\* its calls are numbered 0, 1, 2, ... by its own counter and its sleeps are
\* base_delay, 2*base_delay, ... of its own base_delay
OwnCounterAndBackoff(i) ==
    \A j \in 1..Len(CallsAndSleepsOf(i)) :
        IF j % 2 = 1
        THEN /\ CallsAndSleepsOf(i)[j].type = "call"
             /\ CallsAndSleepsOf(i)[j].n = (j - 1) \div 2
        ELSE /\ CallsAndSleepsOf(i)[j].type = "sleep"
             /\ CallsAndSleepsOf(i)[j].delay = Doubled(base_delay[i], (j \div 2) - 1)

\* it ends with the value or the error of its own last attempt, after at most
\* max_retries + 1 attempts of its own
OwnResult(i) ==
    IF pc[i] = "done"
    THEN /\ CallsOf(i) <= max_retries[i] + 1
         /\ IF result[i].kind = "return"
            THEN outcome[i] = Returned(result[i].value)
            ELSE /\ outcome[i] = Raised(Error(result[i].msg, result[i].cls, <<i, CallsOf(i)>>))
                 /\ IsRateLimit(result[i].msg) => CallsOf(i) = max_retries[i] + 1
    ELSE outcome[i] = NoOutcome

\* C13: under every interleaving of the invocations each one counts its own
\* attempts, sleeps its own backoff sequence from its own base_delay and ends
\* with the outcome of its own last attempt, and two calls of a calculator
\* with the same inputs return the same record.
C13_InvocationsDoNotInteract ==
    /\ \A i \in Invocations : OwnCounterAndBackoff(i) /\ OwnResult(i)
    /\ \A i, j \in Invocations :
          (pc[i] = "done" /\ pc[j] = "done" /\ fn[i] = "calculate_mortgage"
              /\ fn[j] = fn[i] /\ args[j] = args[i])
              => outcome[j] = outcome[i]

C13_Witness ==
    /\ fn[1] = "op" /\ fn[2] = "op"
    /\ pc[1] = "sleep" /\ pc[2] = "sleep"
    /\ CallsOf(1) = 2 /\ CallsOf(2) = 1
    /\ max_retries[1] = max_retries[2]
    /\ base_delay[1] # base_delay[2]

IsWarning(ev) == ev.type = "warning"
IsError(ev) == ev.type = "error"
Warnings == SelectSeq(events, IsWarning)
Errors == SelectSeq(events, IsError)

\* the attempt that has just been handled failed with a retryable error
FailedRetryably ==
    /\ pc \in {"sleep", "done"}
    /\ result.kind = "raise" /\ result.cls = "Exception" /\ HasSignature(result.msg)

\* C14: a retryable failure of attempt i < max_retries is followed by exactly
\* one warning with the count i+1 and the delay base_delay*2^i and then by the
\* sleep of that delay; one error is logged, last of all, exactly when attempt
\* max_retries fails retryably and the failure is raised; a successful attempt
\* and a non-retryable failure log nothing.
C14_LoggingFollowsAttempts ==
    /\ \A j \in 1..Len(events) :
          /\ IsWarning(events[j]) =>
                /\ j > 1 /\ IsCall(events[j - 1])
                /\ events[j].n = events[j - 1].n + 1
                /\ events[j].n <= max_retries
                /\ events[j].delay = Doubled(base_delay, events[j - 1].n)
                /\ IF j < Len(events)
                   THEN events[j + 1] = Event("sleep", events[j - 1].n, events[j].delay)
                   ELSE pc = "sleep"
          /\ IsError(events[j]) =>
                /\ j = Len(events) /\ j > 1
                /\ events[j - 1] = Event("call", max_retries, Zero)
                /\ events[j].n = max_retries
                /\ pc = "done" /\ outcome.kind = "raise" /\ FailedRetryably
          /\ IsSleep(events[j]) => j > 1 /\ IsWarning(events[j - 1])
          /\ (IsCall(events[j]) /\ j < Len(events)) => IsLog(events[j + 1])
    /\ Len(Errors) <= 1
    /\ Len(Warnings) = Len(Sleeps) + (IF pc = "sleep" THEN 1 ELSE 0)
    /\ FailedRetryably =>
          IF attempt < max_retries
          THEN LastEvent = Event("warning", attempt + 1, Doubled(base_delay, attempt))
          ELSE LastEvent = Event("error", max_retries, Zero) /\ pc = "done"
    /\ (pc = "done" /\ ~FailedRetryably) =>
          /\ IsCall(LastEvent)
          /\ Errors = <<>>
          /\ Len(Warnings) = attempt

C14_Witness ==
    /\ pc = "done" /\ fn = "op" /\ max_retries = 2 /\ base_delay = R(1, 2)
    /\ Len(Errors) = 1 /\ IsError(LastEvent)
    /\ Warnings = <<Event("warning", 1, R(1, 2)), Event("warning", 2, R(1, 1))>>

\* an accepted input whose monthly expenses exceed the rent
ExpensesExceedRent ==
    /\ CashflowDone
    /\ args.monthly_rent.n >= 0 /\ args.mortgage_payment.n >= 0
    /\ RLt(args.monthly_rent, ExpensesOf(args))

HouseHack ==
    [monthly_rent |-> R(1450, 1), mortgage_payment |-> R(2312, 1),
     monthly_taxes |-> R(280, 1), monthly_insurance |-> R(145, 1),
     vacancy_rate_pct |-> R(5, 1), maintenance_pct |-> R(5, 1),
     property_price |-> R(365000, 1), total_cash_invested |-> R(17775, 1)]

HalfCent == R(1, 200)

\* C15 (as stated): whenever the monthly expenses exceed the rent, the call
\* returns a success record whose monthly_cash_flow is below 0.
C15_ExcessMeansNegative ==
    ExpensesExceedRent =>
        /\ CashflowSuccess
        /\ RLt(outcome.value.monthly_cash_flow, Zero)

\* C15 (amended): whenever the monthly expenses exceed the rent, the call
\* returns a success record whose monthly_cash_flow is the cash flow rounded
\* to cents: below 0 when the excess is more than half a cent, 0 when it is
\* less; for the house-hack input it is -1432.
C15_NegativeBeyondHalfCent ==
    ExpensesExceedRent =>
        /\ CashflowSuccess
        /\ outcome.value.monthly_cash_flow = Round(CashFlowOf(args), 2)
        /\ RLe(outcome.value.monthly_cash_flow, Zero)
        /\ RLt(HalfCent, RNeg(CashFlowOf(args)))
              => RLe(outcome.value.monthly_cash_flow, R(-1, 100))
        /\ RLt(RNeg(CashFlowOf(args)), HalfCent)
              => outcome.value.monthly_cash_flow = Zero
        /\ args = HouseHack => outcome.value.monthly_cash_flow = R(-1432, 1)

C15_Witness ==
    /\ ExpensesExceedRent
    /\ args = HouseHack
    /\ RLt(outcome.value.monthly_cash_flow, Zero)

\* an excess of less than half a cent
C15_SmallExcess ==
    /\ ExpensesExceedRent
    /\ RLt(RNeg(CashFlowOf(args)), HalfCent)
    /\ outcome.value.monthly_cash_flow = Zero

\* the loan from the inputs, and how far the returned payment, loan and
\* interest are from payment * term_years * 12 - loan = interest
LoanOf(a) == RDiv(RMul(a.price, RSub(Hundred, a.down_payment_pct)), Hundred)
InterestGap ==
    RAbs(RSub(RSub(RMul(outcome.value.monthly_payment, R(args.term_years * 12, 1)),
                   outcome.value.loan_amount),
              outcome.value.total_interest))

\* C16 (as stated): a returned success record has loan_amount =
\* price * (1 - down_payment_pct/100) rounded, and its monthly_payment *
\* term_years * 12 - loan_amount is within 0.01 of its total_interest.
C16_InterestWithinACent ==
    MortgageSuccess =>
        /\ outcome.value.loan_amount = Round(LoanOf(args), 2)
        /\ RLe(InterestGap, R(1, 100))

\* C16 (amended): a returned success record has loan_amount =
\* price * (1 - down_payment_pct/100) rounded, and its monthly_payment *
\* term_years * 12 - loan_amount is within 0.005 * term_years * 12 + 0.01 of
\* its total_interest: half a cent for each payment, half a cent for the loan
\* and half a cent for the interest.
C16_InterestWithinRounding ==
    MortgageSuccess =>
        /\ outcome.value.loan_amount = Round(LoanOf(args), 2)
        /\ RLe(InterestGap, R(args.term_years * 12 + 2, 200))

C16_Witness ==
    /\ MortgageSuccess
    /\ args = [price |-> Hundred, down_payment_pct |-> R(50, 1),
               interest_rate |-> R(1200, 1), term_years |-> 1]
    /\ outcome.value.monthly_payment = R(5001, 100)
    /\ outcome.value.total_interest = R(55015, 100)
    /\ InterestGap = R(3, 100)

\* the budget of a call and the way it ends
WithinBudget ==
    pc # "idle" =>
        /\ Calls <= max_retries + 1
        /\ Len(Sleeps) <= max_retries
        /\ max_retries = 0 => (pc # "sleep" /\ Sleeps = <<>>)
        /\ pc = "done" =>
              /\ Calls >= 1
              /\ max_retries = 0 => Calls = 1
              /\ IF result.kind = "return"
                 THEN outcome.kind = "return" /\ outcome.value = result.value
                 ELSE /\ result.kind = "raise" /\ outcome.kind = "raise"
                      /\ outcome.error = Error(result.msg, result.cls, Calls)

\* C17: whatever func does, a call of the wrapper ends, after at least one and
\* at most max_retries + 1 invocations and at most max_retries sleeps, with
\* the value func returned or the error func raised; with max_retries = 0 it
\* makes one attempt and does not sleep.
C17_TerminatesWithinBudget ==
    /\ []WithinBudget
    /\ (pc = "try") ~> (pc = "done")

C17_Witness ==
    /\ pc = "done" /\ fn = "op" /\ max_retries = 0
    /\ events = <<Event("call", 0, Zero), Event("error", 0, Zero)>>
    /\ outcome.kind = "raise" /\ outcome.error.id = 1

====
